---- MODULE Spec2Model ----
(***************************************************************************)
(* Model of src/main.py: JsonStreamReader.readjson (the framer) and        *)
(* VLCApi (connect, the read loop, issue_request, execute).                *)
(*                                                                         *)
(* A buffer is a sequence of bytes; a byte is written as a one-character   *)
(* string, except the two bytes of the UTF-8 encoding of U+00E9, written   *)
(* "C3" and "A9".  json.loads decodes the bytes to characters first, so    *)
(* the offsets it reports are character offsets.                           *)
(***************************************************************************)
EXTENDS Integers, Sequences, FiniteSets, TLC

(* ------------------------------------------------------------------ *)
(* Bytes, characters and UTF-8 decoding                                 *)
(* ------------------------------------------------------------------ *)

\* bytes.isspace() (line 33), restricted to the whitespace bytes of the model
IsSpace(b) == b \in {" ", "\n"}

\* json.decoder.WHITESPACE as used by json.loads (line 41)
JsonWS(c) == c \in {" ", "\n"}

Digits == {"0", "1", "2", "3", "4", "5", "6", "7", "8", "9"}

DigitVal(c) ==
  CASE c = "0" -> 0 [] c = "1" -> 1 [] c = "2" -> 2 [] c = "3" -> 3
    [] c = "4" -> 4 [] c = "5" -> 5 [] c = "6" -> 6 [] c = "7" -> 7
    [] c = "8" -> 8 [] OTHER -> 9

Drop(s, n) == IF n >= Len(s) THEN << >> ELSE SubSeq(s, n + 1, Len(s))

Take(s, n) == IF n <= 0 THEN << >> ELSE SubSeq(s, 1, IF n > Len(s) THEN Len(s) ELSE n)

\* bytes -> str, as json.loads does for a bytearray argument (line 41, 68):
\* "C3" "A9" is one character, a lone or truncated multi-byte byte is a
\* UnicodeDecodeError
Utf8Ok(b) ==
  \A i \in 1..Len(b) :
    /\ b[i] = "C3" => (i < Len(b) /\ b[i + 1] = "A9")
    /\ b[i] = "A9" => (i > 1 /\ b[i - 1] = "C3")

NotContinuation(x) == x # "A9"

Utf8Chars(b) ==
  SelectSeq([i \in 1..Len(b) |-> IF b[i] = "C3" THEN "E9" ELSE b[i]], NotContinuation)

Utf8Decode(b) ==
  IF Utf8Ok(b) THEN [ok |-> TRUE, chars |-> Utf8Chars(b)]
  ELSE [ok |-> FALSE, chars |-> << >>]

(* ------------------------------------------------------------------ *)
(* json.loads on the JSON subset of the model: objects, arrays,         *)
(* strings without escapes, non-negative integers, true/false/null      *)
(* ------------------------------------------------------------------ *)

\* a decoded JSON value; every value has the same fields
JVal(k, n, str, items) == [kind |-> k, num |-> n, str |-> str, items |-> items]

NoVal == JVal("none", 0, << >>, << >>)

PFail == [ok |-> FALSE, val |-> NoVal, end |-> 0]

POk(v, e) == [ok |-> TRUE, val |-> v, end |-> e]

\* offsets are 0-based as in Python: s[i + 1] is the character at offset i
RECURSIVE SkipWS(_, _)
SkipWS(s, i) == IF i < Len(s) /\ JsonWS(s[i + 1]) THEN SkipWS(s, i + 1) ELSE i

RECURSIVE StringEnd(_, _)
\* offset of the closing quote at or after offset i, Len(s) if there is none
StringEnd(s, i) ==
  IF i >= Len(s) THEN Len(s)
  ELSE IF s[i + 1] = "\"" THEN i ELSE StringEnd(s, i + 1)

\* s[i] is the opening quote
ScanString(s, i) ==
  LET e == StringEnd(s, i + 1)
  IN  IF e >= Len(s) THEN PFail
      ELSE POk(JVal("str", 0, SubSeq(s, i + 2, e), << >>), e + 1)

RECURSIVE DigitsEnd(_, _)
DigitsEnd(s, i) ==
  IF i < Len(s) /\ s[i + 1] \in Digits THEN DigitsEnd(s, i + 1) ELSE i

RECURSIVE DigitsVal(_)
DigitsVal(d) ==
  IF Len(d) = 0 THEN 0
  ELSE 10 * DigitsVal(SubSeq(d, 1, Len(d) - 1)) + DigitVal(d[Len(d)])

\* NUMBER_RE: 0 | [1-9][0-9]*
ScanNumber(s, i) ==
  IF s[i + 1] = "0" THEN POk(JVal("int", 0, << >>, << >>), i + 1)
  ELSE LET e == DigitsEnd(s, i)
       IN  POk(JVal("int", DigitsVal(SubSeq(s, i + 1, e)), << >>, << >>), e)

ScanLiteral(s, i, word, kind) ==
  IF i + Len(word) <= Len(s) /\ SubSeq(s, i + 1, i + Len(word)) = word
  THEN POk(JVal(kind, 0, << >>, << >>), i + Len(word))
  ELSE PFail

RECURSIVE ScanOnce(_, _)
RECURSIVE ObjectMembers(_, _, _)
RECURSIVE ArrayItems(_, _, _)

\* after a "," in an object, at offset n: the next key must open
MembersComma(s, acc, n) ==
  IF n >= Len(s) \/ s[n + 1] # "\"" THEN PFail ELSE ObjectMembers(s, n, acc)

\* after a member's value, at offset d: "}" ends the object, "," goes on
MembersNext(s, acc, d) ==
  IF d >= Len(s) THEN PFail
  ELSE IF s[d + 1] = "}" THEN POk(JVal("object", 0, << >>, acc), d + 1)
  ELSE IF s[d + 1] # "," THEN PFail
  ELSE MembersComma(s, acc, SkipWS(s, d + 1))

\* v is the scan of a member's value
MembersValue(s, acc, k, v) ==
  IF ~v.ok THEN PFail
  ELSE MembersNext(s, acc \o <<k.val, v.val>>, SkipWS(s, v.end))

\* c is the offset where the ":" after key k must be
MembersColon(s, acc, k, c) ==
  IF c >= Len(s) \/ s[c + 1] # ":" THEN PFail
  ELSE MembersValue(s, acc, k, ScanOnce(s, SkipWS(s, c + 1)))

\* k is the scan of a key
MembersKey(s, acc, k) ==
  IF ~k.ok THEN PFail ELSE MembersColon(s, acc, k, SkipWS(s, k.end))

\* s[j] is the quote that opens a key; acc is <<key, value, key, value, ...>>
ObjectMembers(s, j, acc) == MembersKey(s, acc, ScanString(s, j))

\* j is the offset of the first non-whitespace character after "{"
ObjectAt(s, j) ==
  IF j >= Len(s) THEN PFail
  ELSE IF s[j + 1] = "}" THEN POk(JVal("object", 0, << >>, << >>), j + 1)
  ELSE IF s[j + 1] # "\"" THEN PFail
  ELSE ObjectMembers(s, j, << >>)

\* i is the offset after "{"
JSONObject(s, i) == ObjectAt(s, SkipWS(s, i))

\* after an item, at offset d: "]" ends the array, "," goes on
ItemsNext(s, acc, d) ==
  IF d >= Len(s) THEN PFail
  ELSE IF s[d + 1] = "]" THEN POk(JVal("array", 0, << >>, acc), d + 1)
  ELSE IF s[d + 1] # "," THEN PFail
  ELSE ArrayItems(s, SkipWS(s, d + 1), acc)

\* v is the scan of an item
ItemsValue(s, acc, v) ==
  IF ~v.ok THEN PFail ELSE ItemsNext(s, Append(acc, v.val), SkipWS(s, v.end))

ArrayItems(s, j, acc) == ItemsValue(s, acc, ScanOnce(s, j))

\* j is the offset of the first non-whitespace character after "["
ArrayAt(s, j) ==
  IF j >= Len(s) THEN PFail
  ELSE IF s[j + 1] = "]" THEN POk(JVal("array", 0, << >>, << >>), j + 1)
  ELSE ArrayItems(s, j, << >>)

\* i is the offset after "["
JSONArray(s, i) == ArrayAt(s, SkipWS(s, i))

\* c is the character at offset i
ScanAt(s, i, c) ==
  CASE c = "\"" -> ScanString(s, i)
    [] c = "{"  -> JSONObject(s, i + 1)
    [] c = "["  -> JSONArray(s, i + 1)
    [] c = "n"  -> ScanLiteral(s, i, <<"n", "u", "l", "l">>, "null")
    [] c = "t"  -> ScanLiteral(s, i, <<"t", "r", "u", "e">>, "true")
    [] c = "f"  -> ScanLiteral(s, i, <<"f", "a", "l", "s", "e">>, "false")
    [] c \in Digits -> ScanNumber(s, i)
    [] OTHER -> PFail

ScanOnce(s, i) == IF i >= Len(s) THEN PFail ELSE ScanAt(s, i, s[i + 1])

JL(res, val, pos) == [res |-> res, val |-> val, pos |-> pos]

\* JSONDecoder.decode after raw_decode returned r: trailing whitespace is
\* skipped up to offset e, anything after it is 'Extra data' at e
LoadsEnd(s, r, e) ==
  IF e # Len(s) THEN JL("extra", NoVal, e) ELSE JL("ok", r.val, e)

LoadsScanned(s, r) ==
  IF ~r.ok THEN JL("error", NoVal, 0) ELSE LoadsEnd(s, r, SkipWS(s, r.end))

LoadsDecoded(d) ==
  IF ~d.ok THEN JL("unicode", NoVal, 0)
  ELSE LoadsScanned(d.chars, ScanOnce(d.chars, SkipWS(d.chars, 0)))

\* json.loads(bytes): "ok" with the value, "extra" (JSONDecodeError 'Extra
\* data') with pos, "error" (any other JSONDecodeError), or "unicode"
\* (UnicodeDecodeError)
JsonLoads(b) == LoadsDecoded(Utf8Decode(b))

(* ------------------------------------------------------------------ *)
(* JsonStreamReader.readjson                                            *)
(* ------------------------------------------------------------------ *)

\* lines 33-34: the number of leading whitespace bytes
RECURSIVE SpaceEnd(_, _)
SpaceEnd(b, i) == IF i < Len(b) /\ IsSpace(b[i + 1]) THEN SpaceEnd(b, i + 1) ELSE i

\* lines 33-34: delete leading whitespace bytes
StripSpace(b) == Drop(b, SpaceEnd(b, 0))

\* line 42: the boundary when the whole buffer parses
WholeSep(b) == Len(b) - 1

\* line 61: the limit test on the boundary
OverLimit(sep, limit) == sep > limit

RJ(res, buffer, val, sep) == [res |-> res, buffer |-> buffer, val |-> val, sep |-> sep]

\* line 68: the chunk is decoded after it was deleted from the buffer
ReadChunk(rest, again, sep) ==
  CASE again.res = "ok" -> RJ("value", rest, again.val, sep)
    [] again.res = "unicode" -> RJ("UnicodeDecodeError", rest, NoVal, sep)
    [] OTHER -> RJ("JSONDecodeError", rest, NoVal, sep)

\* lines 61-70, once a boundary sep is found in buffer b; obj is the value
\* decoded at line 41, or NoVal when line 45 found the boundary
ReadFrame(b, sep, obj, limit) ==
  IF OverLimit(sep, limit) THEN RJ("LimitOverrunError", b, NoVal, sep)
  ELSE IF obj # NoVal THEN RJ("value", Drop(b, sep), obj, sep)
  ELSE ReadChunk(Drop(b, sep), JsonLoads(Take(b, sep)), sep)

\* lines 53-59: no boundary found
NoBoundary(b, eof) ==
  IF eof THEN RJ("IncompleteReadError", << >>, NoVal, 0)
  ELSE RJ("wait", b, NoVal, 0)

\* lines 40-47: l is the outcome of json.loads on the buffer b
ReadLoaded(b, l, eof, limit) ==
  CASE l.res = "ok" -> ReadFrame(b, WholeSep(b), l.val, limit)
    [] l.res = "extra" -> ReadFrame(b, l.pos, NoVal, limit)
    [] l.res = "unicode" -> RJ("UnicodeDecodeError", b, NoVal, 0)
    [] OTHER -> NoBoundary(b, eof)

\* lines 36-59: b is the buffer without its leading whitespace
ReadStripped(b, eof, limit) ==
  IF Len(b) > 0
  THEN IF b[1] \notin {"{", "["} THEN RJ("AssertionError", b, NoVal, 0)
       ELSE ReadLoaded(b, JsonLoads(b), eof, limit)
  ELSE NoBoundary(b, eof)

\* one pass of the while True loop of readjson (lines 31-70) over the buffer
\* as it is when the pass starts.  res is "value" (returned, val), "wait"
\* (suspended in _wait_for_data) or the name of the exception raised;
\* buffer is the buffer the pass leaves.
ReadPass(buffer, eof, limit) == ReadStripped(StripSpace(buffer), eof, limit)

\* readjson from its first line: lines 26-27 re-raise a stored transport
\* exception before anything else
ReadJson(buffer, eof, limit, exception) ==
  IF exception # "None" THEN RJ(exception, buffer, NoVal, 0)
  ELSE ReadPass(buffer, eof, limit)

(* ------------------------------------------------------------------ *)
(* State                                                                *)
(* ------------------------------------------------------------------ *)

VARIABLES
  \* a JsonStreamReader on its own, driven by a transport and one caller
  stream,     \* the bytes the transport is going to deliver
  fed,        \* how many of them feed_data has appended so far
  buffer,     \* JsonStreamReader._buffer
  eof,        \* JsonStreamReader._eof
  limit,      \* JsonStreamReader._limit
  status,     \* the caller of readjson: "idle", "waiting" (suspended at
              \* line 59) or "woken" (resumed by the transport, not yet run)
  out,        \* the values readjson has returned, in order
  last,       \* the latest pass of readjson: its result, the limit it ran
              \* under, how many bytes had arrived, whether the end of the
              \* stream had been signalled, the byte length of the first
              \* frame of the buffer it started from, how many bytes it
              \* removed from the buffer, and what the buffer it started from
              \* held (leading whitespace, the byte length of the first
              \* frame), and in held the value a LimitOverrunError of the
              \* pass before it had found
  \* one VLCApi instance, its connections and its tasks
  running,          \* VLCApi.running
  request_count,    \* VLCApi.request_count
  current_requests, \* the keys of VLCApi.current_requests
  requests,         \* the Request objects made so far, requests[id + 1] for
                    \* request_id id: request_reply, the state of completed
                    \* ("pending", "result", "cancelled") and whether cleanup
                    \* was added to its done callbacks
  read_exception,   \* VLCApi.read_exception, "None" or the exception's name
  shutdown,         \* VLCApi.shutdown: "unset", "pending" or "cancelled"
  reader_task,      \* VLCApi.reader_task: 0 for None, else the task
  reader,           \* VLCApi.reader / writer: 0 before the first connection,
                    \* else the connection
  conns,            \* the connections opened so far: the JsonStreamReader
                    \* of each (buffer, eof, exception, limit, waiter)
  tasks,            \* the read() tasks created so far: state "new", "waiting",
                    \* "woken", "thrown", "finished" or "failed", the
                    \* connection it waits on, its exception
  ready,            \* the event loop's queue of done callbacks (cleanup of
                    \* line 201), by request id
  written,          \* the ids of the commands handed to writer.write
  conn_pc,          \* where connect() is: "idle", "open1", "open2", "selftest"
  connect_result,   \* how the latest connect() ended: "none", "ok" or the
                    \* name of the exception it raised
  selftest_id,      \* the request of test_connection connect() waits for
  nconnects,        \* connect() calls so far
  connect_log,      \* what the latest connect() did to get a connection, in
                    \* order: the outcome of each open attempt ("ok",
                    \* "refused", "error") and "waitfor" for line 137
  nfeeds,           \* chunks the remote has sent so far
  hook_error,       \* a cleanup callback raised KeyError
  last_call         \* how the latest issue_request ended: "none", "returned"
                    \* or "raised"

framerVars == <<stream, fed, buffer, eof, limit, status, out, last>>

clientVars == <<running, request_count, current_requests, requests, read_exception,
                shutdown, reader_task, reader, conns, tasks, ready, written,
                conn_pc, connect_result, selftest_id, nconnects, connect_log,
                nfeeds, hook_error, last_call>>

vars == <<framerVars, clientVars>>

\* lines 111-115: VLCApi.__init__; nothing is connected, no task exists
ClientInit ==
  /\ running = FALSE
  /\ request_count = 0
  /\ current_requests = {}
  /\ requests = << >>
  /\ read_exception = "None"
  /\ shutdown = "unset"
  /\ reader_task = 0
  /\ reader = 0
  /\ conns = << >>
  /\ tasks = << >>
  /\ ready = << >>
  /\ written = {}
  /\ conn_pc = "idle"
  /\ connect_result = "none"
  /\ selftest_id = -1
  /\ nconnects = 0
  /\ connect_log = << >>
  /\ nfeeds = 0
  /\ hook_error = FALSE
  /\ last_call = "none"

(* ------------------------------------------------------------------ *)
(* A JsonStreamReader on its own                                        *)
(* ------------------------------------------------------------------ *)

\* most values a stream of the framer runs holds
MaxValues == 2

\* the small value of the limit argument of the framer runs
SmallLimit == 3

\* line 117: the default limit of _open_connection
DefaultLimit == 65536

\* a limit argument next to the byte lengths of the values of the framer runs
MidLimit == 6

Values ==
  { <<"{", "\"", "a", "\"", ":", "1", "}">>,
    <<"[", "\"", "C3", "A9", "\"", "]">> }

Seps == { << >>, <<"\n">>, <<" ", "\n">> }

\* n values, each followed by a separator
RECURSIVE StreamsOf(_)
StreamsOf(n) ==
  IF n = 0 THEN { << >> }
  ELSE { s \o v \o p : s \in StreamsOf(n - 1), v \in Values, p \in Seps }

Streams ==
  UNION { StreamsOf(n) : n \in 1..MaxValues }

NoPass == [res |-> "none", val |-> NoVal, sep |-> 0, lim |-> 0, fed |-> 0,
           eof |-> FALSE, size |-> 0, consumed |-> 0, lead |-> 0, frame |-> 0, held |-> NoVal]

\* the byte offset of character offset k of the decoded bytes b
RECURSIVE ByteOffset(_, _, _)
ByteOffset(b, k, i) ==
  IF k = 0 \/ i >= Len(b) THEN i
  ELSE ByteOffset(b, k - 1, IF b[i + 1] = "C3" THEN i + 2 ELSE i + 1)

FrameEndOf(t, l) ==
  CASE l.res = "ok" -> Len(t)
    [] l.res = "extra" -> ByteOffset(t, l.pos, 0)
    [] OTHER -> 0

\* where the first value of the stripped buffer t ends, in bytes: the buffer
\* end when all of t is one value, the offset of the first byte after the
\* value and its trailing whitespace when more follows, 0 when t holds no
\* complete value
FrameEnd(t) == FrameEndOf(t, JsonLoads(t))

\* e without the whitespace bytes of t that end at offset e
RECURSIVE TrimEnd(_, _)
TrimEnd(t, e) == IF e > 0 /\ IsSpace(t[e]) THEN TrimEnd(t, e - 1) ELSE e

\* the byte length of the first value of the stripped buffer t, 0 when t
\* holds no complete value
FrameSize(t) == TrimEnd(t, FrameEnd(t))

ValueOf(l) == IF l.res = "ok" THEN l.val ELSE NoVal

FirstOf(t) == ValueOf(JsonLoads(Take(t, FrameEnd(t))))

\* the first value of buffer b, framed by bytes
FirstValue(b) == FirstOf(StripSpace(b))

FramerInit ==
  /\ stream \in Streams
  /\ fed = 0
  /\ buffer = << >>
  /\ eof = FALSE
  /\ limit \in {SmallLimit, MidLimit, DefaultLimit}
  /\ status = "idle"
  /\ out = << >>
  /\ last = NoPass
  /\ ClientInit

\* StreamReader.feed_data: the transport appends the next n bytes and wakes
\* the waiter
FeedData(n) ==
  /\ ~eof
  /\ fed + n <= Len(stream)
  /\ buffer' = buffer \o SubSeq(stream, fed + 1, fed + n)
  /\ fed' = fed + n
  /\ status' = IF status = "waiting" THEN "woken" ELSE status
  /\ UNCHANGED <<stream, eof, limit, out, last, clientVars>>

\* StreamReader.feed_eof
FeedEof ==
  /\ ~eof
  /\ eof' = TRUE
  /\ status' = IF status = "waiting" THEN "woken" ELSE status
  /\ UNCHANGED <<stream, fed, buffer, limit, out, last, clientVars>>

\* what a pass with outcome r does to the reader and its caller
FramerRead(r) ==
  /\ buffer' = r.buffer
  /\ status' = IF r.res = "wait" THEN "waiting" ELSE "idle"
  /\ out' = IF r.res = "value" THEN Append(out, r.val) ELSE out
  /\ last' = [res |-> r.res, val |-> r.val, sep |-> r.sep, lim |-> limit,
              fed |-> fed,
              eof |-> eof,
              size |-> FrameSize(StripSpace(buffer)),
              consumed |-> Len(buffer) - Len(r.buffer),
              lead |-> SpaceEnd(buffer, 0),
              frame |-> FrameEnd(StripSpace(buffer)),
              held |-> IF r.res = "LimitOverrunError"
                       THEN FirstValue(buffer)
                       ELSE IF last.res = "LimitOverrunError"
                            THEN last.held ELSE NoVal]

\* the caller calls readjson, or readjson resumes after line 59; one pass of
\* its loop
CallReadJson ==
  /\ status \in {"idle", "woken"}
  /\ FramerRead(ReadPass(buffer, eof, limit))
  /\ UNCHANGED <<stream, fed, eof, limit, clientVars>>

\* the owner of the reader raises its limit after a LimitOverrunError
RaiseLimit ==
  /\ limit < DefaultLimit
  /\ last.res = "LimitOverrunError"
  /\ limit' = DefaultLimit
  /\ UNCHANGED <<stream, fed, buffer, eof, status, out, last, clientVars>>

FramerNext ==
  \/ \E n \in 1..Len(stream) : FeedData(n)
  \/ FeedEof
  \/ CallReadJson
  \/ RaiseLimit

FramerSpec == FramerInit /\ [][FramerNext]_vars

(* ------------------------------------------------------------------ *)
(* Properties of the framer (FramerSpec)                                *)
(* ------------------------------------------------------------------ *)

\* the values repeated readjson calls return when buffer b arrived as one
\* chunk, up to the first call that does not return
RECURSIVE WholeOut(_)
WholeNext(r) == IF r.res = "value" THEN <<r.val>> \o WholeOut(r.buffer) ELSE << >>

WholeOut(b) == WholeNext(ReadPass(b, FALSE, DefaultLimit))

\* the values of the frames of b, framed by bytes
RECURSIVE AllValues(_)
AllFrom(t, e) == IF e = 0 THEN << >> ELSE <<FirstOf(t)>> \o AllValues(Drop(t, e))

AllValues(b) == AllFrom(StripSpace(b), FrameEnd(StripSpace(b)))

\* every byte of the stream has arrived and readjson has stopped returning
Quiescent ==
  /\ fed = Len(stream)
  /\ last.fed = fed
  /\ status # "woken"
  /\ limit = DefaultLimit
  /\ last.res \notin {"none", "value", "LimitOverrunError"}

\* C8: whatever the split of the stream into chunks and the interleaving of
\* their arrival with readjson calls, the calls return the same sequence of
\* values as when the whole stream is fed as one chunk.
C8_ChunkInvariance == Quiescent => out = WholeOut(stream)

\* C9: a successful readjson removes exactly the bytes of the frame it
\* returns (up to the buffer end when the whole buffer is one value, up to
\* the first trailing byte otherwise); after all values of a stream without
\* separators were returned, no byte is left in the buffer.
C9_BoundaryExact ==
  /\ last.res = "value" => last.consumed = last.lead + last.frame
  /\ ( /\ \A i \in 1..Len(stream) : ~IsSpace(stream[i])
       /\ fed = Len(stream)
       /\ out = AllValues(stream) ) => buffer = << >>

\* C10: a LimitOverrunError consumes nothing of the buffer (its leading
\* whitespace aside), and the call after it, once the limit was raised
\* above the frame, returns the object the LimitOverrunError had found.
C10_LimitRecoverable ==
  /\ last.res = "LimitOverrunError" => last.consumed = last.lead
  /\ (last.held # NoVal /\ last.lim = DefaultLimit)
       => (last.res = "value" /\ last.val = last.held)

\* C11: a pass that runs after feed_eof on a buffer without a complete
\* value raises IncompleteReadError and leaves the buffer empty (nothing is
\* fed after feed_eof, so the buffer is as that pass left it); a pass that
\* runs after feed_eof on a buffer that holds a complete value within the
\* limit returns a value.
C11_UnrecoverableEof ==
  /\ (last.eof /\ last.frame = 0)
       => (last.res = "IncompleteReadError" /\ buffer = << >>)
  /\ (last.eof /\ last.frame > 0 /\ last.lim = DefaultLimit) => last.res = "value"

\* C19: a pass returns no value whose frame is longer than the limit it
\* ran under, rejects no frame that is within the limit, and rejects every
\* complete frame that is longer than the limit
C19_LimitExact ==
  /\ last.res = "value" => last.size <= last.lim
  /\ last.res = "LimitOverrunError" => last.size > last.lim
  /\ (last.size > 0 /\ last.size > last.lim) => last.res = "LimitOverrunError"

(* ------------------------------------------------------------------ *)
(* VLCApi: the read loop                                                *)
(* ------------------------------------------------------------------ *)

KeyReplyId == <<"r", "e", "p", "l", "y", "_", "i", "d">>

\* dict.get(key): the value of the last member with that key, NoVal when
\* the key is absent
RECURSIVE GetFrom(_, _, _)
GetFrom(items, key, i) ==
  IF i < 1 THEN NoVal
  ELSE IF items[i].str = key THEN items[i + 1]
  ELSE GetFrom(items, key, i - 2)

Get(obj, key) == GetFrom(obj.items, key, Len(obj.items) - 1)

\* the key a decoded reply_id is in current_requests.get (line 162): ints
\* by value, True as 1, False as 0, a string as no request id (-1)
PyKey(v) ==
  CASE v.kind = "int" -> v.num
    [] v.kind = "true" -> 1
    [] v.kind = "false" -> 0
    [] OTHER -> -1

\* a lookup that ignores the key and returns the oldest entry of the table
LookupOldest(table, key) ==
  IF table = {} THEN -1 ELSE CHOOSE k \in table : \A j \in table : k <= j

\* line 162: current_requests.get(reply_id, None); -1 for None
LookupRequest(table, key) == IF key \in table THEN key ELSE -1

\* line 168: the test before set_result
MayResolve(completed) == completed # "cancelled"

\* what a run of the read loop leaves: the connections, the requests, the
\* callback queue, and res: "waiting" (suspended in readjson on connection
\* conn), "finished" (the while loop ended) or the exception raised
RL(cs, rq, rdy, res, c) ==
  [conns |-> cs, requests |-> rq, ready |-> rdy, res |-> res, conn |-> c]

SetBuffer(cs, c, b) == [cs EXCEPT ![c].buffer = b]

\* a future that completes schedules its done callbacks (call_soon); the
\* cleanup of line 201 is one once line 204 has added it
Schedule(rdy, rq, id) == IF rq[id + 1].hook THEN Append(rdy, id) ELSE rdy

StoreReply(rq, id, reply) == [rq EXCEPT ![id + 1].reply = reply]

RECURSIVE LoopTop(_, _, _)

\* lines 167-169: request id was found in the table
Resolve(cs, rq, rdy, reply, id) ==
  IF ~MayResolve(rq[id + 1].completed)
  THEN LoopTop(cs, StoreReply(rq, id, reply), rdy)
  ELSE IF rq[id + 1].completed # "pending"
  THEN RL(cs, StoreReply(rq, id, reply), rdy, "InvalidStateError", 0)
  ELSE LoopTop(cs, [rq EXCEPT ![id + 1].reply = reply, ![id + 1].completed = "result"],
               Schedule(rdy, rq, id))

\* lines 162-165: id is the request found, -1 when there is none
Found(cs, rq, rdy, reply, id) ==
  IF id = -1 THEN LoopTop(cs, rq, rdy) ELSE Resolve(cs, rq, rdy, reply, id)

\* lines 155-162: rid is reply.get('reply_id', None)
Correlate(cs, rq, rdy, reply, rid) ==
  IF rid.kind \in {"none", "null"} THEN LoopTop(cs, rq, rdy)
  ELSE IF rid.kind \in {"array", "object"} THEN RL(cs, rq, rdy, "TypeError", 0)
  ELSE Found(cs, rq, rdy, reply, LookupRequest(current_requests, PyKey(rid)))

\* lines 155-169: one message of the read loop
Dispatch(cs, rq, rdy, reply) ==
  IF reply.kind # "object" THEN RL(cs, rq, rdy, "AttributeError", 0)
  ELSE Correlate(cs, rq, rdy, reply, Get(reply, KeyReplyId))

\* line 154: r is the outcome of readjson on connection c; a pass that has
\* to wait while another task waits on that reader is the RuntimeError of
\* StreamReader._wait_for_data
Reading(cs, rq, rdy, c, r) ==
  CASE r.res = "value" -> Dispatch(SetBuffer(cs, c, r.buffer), rq, rdy, r.val)
    [] r.res = "wait" ->
         IF cs[c].waiter # 0
         THEN RL(SetBuffer(cs, c, r.buffer), rq, rdy, "RuntimeError", 0)
         ELSE RL(SetBuffer(cs, c, r.buffer), rq, rdy, "waiting", c)
    [] OTHER -> RL(SetBuffer(cs, c, r.buffer), rq, rdy, r.res, 0)

\* lines 153-154: the loop test, then readjson on the client's current reader
LoopTop(cs, rq, rdy) ==
  IF ~running THEN RL(cs, rq, rdy, "finished", 0)
  ELSE Reading(cs, rq, rdy, reader,
               ReadJson(cs[reader].buffer, cs[reader].eof, cs[reader].limit,
                        cs[reader].exception))

\* the task resumes inside readjson (line 59) on connection c: the next pass
Resume(cs, rq, rdy, c) ==
  Reading(cs, rq, rdy, c, ReadPass(cs[c].buffer, cs[c].eof, cs[c].limit))

\* line 171: the exceptions the read loop handles
Caught(e) == e \in {"RuntimeError", "IncompleteReadError"}

\* lines 173-175: cancel every request of the table that is not cancelled;
\* cancel() changes a pending future only, and schedules its callbacks
RECURSIVE CancelFrom(_, _, _)
CancelFrom(rq, rdy, id) ==
  IF id >= Len(rq) THEN [requests |-> rq, ready |-> rdy]
  ELSE IF id \in current_requests /\ rq[id + 1].completed = "pending"
  THEN CancelFrom([rq EXCEPT ![id + 1].completed = "cancelled"], Schedule(rdy, rq, id),
                  id + 1)
  ELSE CancelFrom(rq, rdy, id + 1)

\* a finally clause that leaves the shutdown future as it is
FinallyKeep(sd) == sd

\* lines 180-181
FinallyShutdown(sd) == IF sd # "cancelled" THEN "cancelled" ELSE sd

\* lines 171-181: the read loop ends, normally or with exception e
ReadExit(t, r, after) ==
  /\ conns' = r.conns
  /\ requests' = after.requests
  /\ ready' = after.ready
  /\ read_exception' = IF Caught(r.res) THEN r.res ELSE read_exception
  /\ tasks' = [tasks EXCEPT ![t] =
                 [state |-> IF r.res = "finished" THEN "finished" ELSE "failed",
                  conn |-> 0,
                  exc |-> IF r.res = "finished" THEN "None" ELSE r.res]]
  /\ reader_task' = 0
  /\ shutdown' = FinallyShutdown(shutdown)

\* the read loop suspends in readjson on connection r.conn
ReadSuspend(t, r) ==
  /\ conns' = [r.conns EXCEPT ![r.conn].waiter = t]
  /\ requests' = r.requests
  /\ ready' = r.ready
  /\ tasks' = [tasks EXCEPT ![t] = [state |-> "waiting", conn |-> r.conn, exc |-> "None"]]
  /\ UNCHANGED <<read_exception, reader_task, shutdown>>

\* r is what the run of task t came to
ReadDone(t, r) ==
  IF r.res = "waiting" THEN ReadSuspend(t, r)
  ELSE IF Caught(r.res) THEN ReadExit(t, r, CancelFrom(r.requests, r.ready, 0))
  ELSE ReadExit(t, r, [requests |-> r.requests, ready |-> r.ready])

\* lines 151-181: task t runs read() from where it is until it suspends or
\* ends; a task the transport resumed with an exception raises it at line 59
ReadStep(t) ==
  /\ tasks[t].state \in {"new", "woken", "thrown"}
  /\ ReadDone(t, CASE tasks[t].state = "new" -> LoopTop(conns, requests, ready)
                   [] tasks[t].state = "woken" ->
                        Resume(conns, requests, ready, tasks[t].conn)
                   [] OTHER -> RL(conns, requests, ready, tasks[t].exc, 0))
  /\ UNCHANGED <<framerVars, running, request_count, current_requests, reader,
                 written, conn_pc, connect_result, selftest_id, nconnects,
                 connect_log, nfeeds,
                 hook_error, last_call>>

(* ------------------------------------------------------------------ *)
(* VLCApi: issue_request, execute, connect                              *)
(* ------------------------------------------------------------------ *)

\* most requests a run makes
MaxRequests == 2

\* most chunks the remote sends in a run
MaxFeeds == 2

\* most connect() calls of a run
MaxConnects == 1

KeyTimeout == <<"t", "i", "m", "e", "o", "u", "t">>

KeyErrorMsg == <<"e", "r", "r", "o", "r">>

KeyResult == <<"r", "e", "s", "u", "l", "t">>

\* line 196: a new Request
NewRequest(hook) == [reply |-> NoVal, completed |-> "pending", hook |-> hook]

\* an issue_request that leaves the counter as it is
IssueSameId ==
  /\ request_count' = request_count
  /\ current_requests' = current_requests \cup {request_count}
  /\ requests' = Append(requests, NewRequest(reader # 0))
  /\ written' = IF reader # 0 THEN written \cup {request_count} ELSE written
  /\ last_call' = IF reader # 0 THEN "returned" ELSE "raised"

\* lines 193-206 of issue_request, past the test of line 190; without a
\* writer line 199 raises after the entry was inserted
IssueAccepted ==
  /\ request_count' = request_count + 1
  /\ current_requests' = current_requests \cup {request_count}
  /\ requests' = Append(requests, NewRequest(reader # 0))
  /\ written' = IF reader # 0 THEN written \cup {request_count} ELSE written
  /\ last_call' = IF reader # 0 THEN "returned" ELSE "raised"

\* lines 190-191
FailsFast(exc) == exc # "None"

\* lines 189-206: a caller calls issue_request
IssueRequest ==
  /\ request_count < MaxRequests
  /\ IF FailsFast(read_exception)
     THEN /\ last_call' = "raised"
          /\ UNCHANGED <<request_count, current_requests, requests, written>>
     ELSE IssueAccepted
  /\ UNCHANGED <<framerVars, running, read_exception, shutdown, reader_task, reader,
                 conns, tasks, ready, conn_pc, connect_result, selftest_id,
                 nconnects, connect_log, nfeeds, hook_error>>

\* line 202
CleanupTable(table, id) == table \ {id}

\* lines 201-202: the event loop runs the next done callback
RunCallback ==
  /\ ready # << >>
  /\ ready' = Tail(ready)
  /\ IF Head(ready) \in current_requests
     THEN /\ current_requests' = CleanupTable(current_requests, Head(ready))
          /\ UNCHANGED hook_error
     ELSE /\ hook_error' = TRUE
          /\ UNCHANGED current_requests
  /\ UNCHANGED <<framerVars, running, request_count, requests, read_exception,
                 shutdown, reader_task, reader, conns, tasks, written, conn_pc,
                 connect_result, selftest_id, nconnects, connect_log, nfeeds, last_call>>

\* the caller that holds the future of request id cancels it
Abandon(id) ==
  /\ id \in written
  /\ requests[id + 1].completed = "pending"
  /\ requests' = [requests EXCEPT ![id + 1].completed = "cancelled"]
  /\ ready' = Schedule(ready, requests, id)
  /\ UNCHANGED <<framerVars, running, request_count, current_requests,
                 read_exception, shutdown, reader_task, reader, conns, tasks,
                 written, conn_pc, connect_result, selftest_id, nconnects,
                 connect_log, nfeeds,
                 hook_error, last_call>>

\* Python truth of a decoded value
Truthy(v) ==
  CASE v.kind \in {"none", "null", "false"} -> FALSE
    [] v.kind = "true" -> TRUE
    [] v.kind = "int" -> v.num # 0
    [] v.kind = "str" -> Len(v.str) > 0
    [] OTHER -> Len(v.items) > 0

\* lines 213-220: what execute does with the reply obj: "return" or the
\* exception raised
ExecuteOutcome(obj) ==
  IF Get(obj, KeyTimeout).kind = "none" THEN "KeyError"
  ELSE IF Truthy(Get(obj, KeyTimeout)) THEN "TimeoutError"
  ELSE IF Get(obj, KeyErrorMsg).kind \notin {"none", "null"} THEN "RuntimeError"
  ELSE "return"

\* lines 186-187 and 144: test_connection on the reply obj execute returned
TestOutcome(obj) ==
  IF Get(obj, KeyResult).kind = "none" THEN "KeyError"
  ELSE IF Get(obj, KeyResult).kind = "int" /\ Get(obj, KeyResult).num = 4 THEN "ok"
  ELSE "AssertionError"

\* line 144: how the self-test ends once its future req is done
SelfTestOutcome(req) ==
  IF req.completed = "cancelled" THEN "CancelledError"
  ELSE IF ExecuteOutcome(req.reply) # "return" THEN ExecuteOutcome(req.reply)
  ELSE TestOutcome(req.reply)

\* lines 120-125: a new JsonStreamReader
NewConn == [buffer |-> << >>, eof |-> FALSE, exception |-> "None",
            limit |-> DefaultLimit, waiter |-> 0]

NewTask == [state |-> "new", conn |-> 0, exc |-> "None"]

\* lines 145-149: connect fails with exception e; without a shutdown
\* attribute line 147 raises AttributeError instead
Teardown(e) ==
  /\ running' = FALSE
  /\ shutdown' = IF shutdown = "pending" THEN "cancelled" ELSE shutdown
  /\ connect_result' = IF shutdown = "unset" THEN "AttributeError" ELSE e
  /\ conn_pc' = "idle"

\* lines 127-134: a caller calls connect, one of at most n calls of the
\* run; line 128 asserts it is not running
ConnectWithin(n) ==
  /\ conn_pc = "idle"
  /\ nconnects < n
  /\ request_count < MaxRequests
  /\ nconnects' = nconnects + 1
  /\ connect_log' = << >>
  /\ IF running
     THEN connect_result' = "AssertionError" /\ UNCHANGED conn_pc
     ELSE connect_result' = "none" /\ conn_pc' = "open1"
  /\ UNCHANGED <<framerVars, running, request_count, current_requests, requests,
                 read_exception, shutdown, reader_task, reader, conns, tasks,
                 ready, written, selftest_id, nfeeds, hook_error, last_call>>

Connect == ConnectWithin(MaxConnects)

\* lines 130 and 141-144: the connection is open; the shutdown future and
\* the read task are created and test_connection issues its request
Started ==
  /\ conns' = Append(conns, NewConn)
  /\ reader' = Len(conns) + 1
  /\ tasks' = Append(tasks, NewTask)
  /\ reader_task' = Len(tasks) + 1
  /\ IF FailsFast(read_exception)
     THEN /\ running' = FALSE
          /\ shutdown' = "cancelled"
          /\ connect_result' = read_exception
          /\ conn_pc' = "idle"
          /\ last_call' = "raised"
          /\ UNCHANGED <<request_count, current_requests, requests, written,
                         selftest_id>>
     ELSE /\ running' = TRUE
          /\ shutdown' = "pending"
          /\ request_count' = request_count + 1
          /\ current_requests' = current_requests \cup {request_count}
          /\ requests' = Append(requests, NewRequest(TRUE))
          /\ written' = written \cup {request_count}
          /\ last_call' = "returned"
          /\ selftest_id' = request_count
          /\ conn_pc' = "selftest"
          /\ UNCHANGED connect_result
  /\ UNCHANGED <<framerVars, read_exception, ready, nconnects, nfeeds, hook_error>>

\* lines 145-149 after a failed open
OpenFailed(e) ==
  /\ Teardown(e)
  /\ UNCHANGED <<framerVars, request_count, current_requests, requests,
                 read_exception, reader_task, reader, conns, tasks, ready, written,
                 selftest_id, nconnects, nfeeds, hook_error, last_call>>

\* a first attempt after which nothing waits for the remote to start
AttemptNoWait(o) == <<o>>

\* lines 134-138: what the first open attempt adds to the log; after a
\* refusal system("waitfor VlcStarted") runs and returns before anything else
Attempt1(o) == IF o = "refused" THEN <<o, "waitfor">> ELSE <<o>>

\* lines 133-139: the first open ends: it succeeds, it is refused (the
\* client then blocks in system("waitfor") and opens again), or it fails
\* otherwise
Open1(o) ==
  /\ conn_pc = "open1"
  /\ connect_log' = connect_log \o Attempt1(o)
  /\ CASE o = "ok" -> Started
       [] o = "refused" ->
            /\ conn_pc' = "open2"
            /\ UNCHANGED <<framerVars, running, request_count, current_requests,
                           requests, read_exception, shutdown, reader_task, reader,
                           conns, tasks, ready, written, connect_result, selftest_id,
                           nconnects, nfeeds, hook_error, last_call>>
       [] OTHER -> OpenFailed("OSError")

\* line 139: the second open ends
Open2(o) ==
  /\ conn_pc = "open2"
  /\ connect_log' = Append(connect_log, o)
  /\ CASE o = "ok" -> Started
       [] o = "refused" -> OpenFailed("ConnectionRefusedError")
       [] OTHER -> OpenFailed("OSError")

\* lines 144-149: the future of the self-test is done and connect resumes;
\* the read task of line 143 was scheduled before connect suspended at line
\* 144, so it has run its first step by then
SelfTestDone ==
  /\ conn_pc = "selftest"
  /\ tasks[Len(tasks)].state # "new"
  /\ requests[selftest_id + 1].completed # "pending"
  /\ \A i \in 1..Len(ready) : ready[i] # selftest_id
  /\ IF SelfTestOutcome(requests[selftest_id + 1]) = "ok"
     THEN /\ connect_result' = "ok"
          /\ conn_pc' = "idle"
          /\ UNCHANGED <<running, shutdown>>
     ELSE Teardown(SelfTestOutcome(requests[selftest_id + 1]))
  /\ UNCHANGED <<framerVars, request_count, current_requests, requests,
                 read_exception, reader_task, reader, conns, tasks, ready, written,
                 selftest_id, nconnects, connect_log, nfeeds, hook_error, last_call>>

(* ------------------------------------------------------------------ *)
(* The remote end and the transport                                     *)
(* ------------------------------------------------------------------ *)

DigitOf(n) ==
  CASE n = 0 -> "0" [] n = 1 -> "1" [] n = 2 -> "2" [] n = 3 -> "3"
    [] n = 4 -> "4" [] n = 5 -> "5" [] n = 6 -> "6" [] n = 7 -> "7"
    [] n = 8 -> "8" [] OTHER -> "9"

\* {"reply_id":n,"result":4,"timeout":false}
ReplyBytes(n) ==
  <<"{", "\"", "r", "e", "p", "l", "y", "_", "i", "d", "\"", ":", DigitOf(n), ",",
    "\"", "r", "e", "s", "u", "l", "t", "\"", ":", "4", ",",
    "\"", "t", "i", "m", "e", "o", "u", "t", "\"", ":", "f", "a", "l", "s", "e", "}">>

\* {"reply_id":0
ReplyHead ==
  <<"{", "\"", "r", "e", "p", "l", "y", "_", "i", "d", "\"", ":", "0">>

\* ,"result":d
FieldResult(d) == <<",", "\"", "r", "e", "s", "u", "l", "t", "\"", ":", d>>

\* ,"timeout":true
FieldTimeoutTrue ==
  <<",", "\"", "t", "i", "m", "e", "o", "u", "t", "\"", ":", "t", "r", "u", "e">>

\* ,"timeout":false
FieldTimeoutFalse ==
  <<",", "\"", "t", "i", "m", "e", "o", "u", "t", "\"", ":", "f", "a", "l", "s", "e">>

\* ,"error":"e"
FieldError == <<",", "\"", "e", "r", "r", "o", "r", "\"", ":", "\"", "e", "\"">>

\* other replies to request 0: one without a timeout field, one that
\* reports a timeout, one that reports an error, one with another result
OtherReplies ==
  { ReplyHead \o FieldResult("4") \o <<"}", "\n">>,
    ReplyHead \o FieldResult("4") \o FieldTimeoutTrue \o <<"}", "\n">>,
    ReplyHead \o FieldTimeoutFalse \o FieldError \o <<"}", "\n">>,
    ReplyHead \o FieldResult("5") \o FieldTimeoutFalse \o <<"}", "\n">> }

\* what the remote may send in one chunk: a reply to request id 0 .. MaxRequests - 1
\* followed by a newline or not, an id-less message, a JSON array, a byte
\* that starts no JSON value, the start of an object
Chunks ==
  { ReplyBytes(n) \o <<"\n">> : n \in 0..(MaxRequests - 1) }
    \cup { ReplyBytes(n) : n \in 0..(MaxRequests - 1) }
    \cup { <<"{", "}", "\n">>, <<"[", "]", "\n">>, <<"x">>, <<"{">> }
    \cup OtherReplies

\* StreamReader._wakeup_waiter: the task waiting on connection c, if any,
\* is resumed
WakeTasks(c, how, exc) ==
  IF conns[c].waiter = 0 THEN tasks
  ELSE [tasks EXCEPT ![conns[c].waiter].state = how, ![conns[c].waiter].exc = exc]

Open(c) == ~conns[c].eof /\ conns[c].exception = "None"

\* StreamReader.feed_data: a chunk arrives on connection c
DataReceived(c, chunk) ==
  /\ Open(c)
  /\ nfeeds < MaxFeeds
  /\ nfeeds' = nfeeds + 1
  /\ conns' = [conns EXCEPT ![c].buffer = @ \o chunk, ![c].waiter = 0]
  /\ tasks' = WakeTasks(c, "woken", "None")
  /\ UNCHANGED <<framerVars, running, request_count, current_requests, requests,
                 read_exception, shutdown, reader_task, reader, ready, written,
                 conn_pc, connect_result, selftest_id, nconnects, connect_log, hook_error,
                 last_call>>

\* StreamReader.feed_eof: the remote closes connection c
EofReceived(c) ==
  /\ Open(c)
  /\ conns' = [conns EXCEPT ![c].eof = TRUE, ![c].waiter = 0]
  /\ tasks' = WakeTasks(c, "woken", "None")
  /\ UNCHANGED <<framerVars, running, request_count, current_requests, requests,
                 read_exception, shutdown, reader_task, reader, ready, written,
                 conn_pc, connect_result, selftest_id, nconnects, connect_log, nfeeds,
                 hook_error, last_call>>

\* StreamReader.set_exception: connection c is lost with an OSError
ConnectionLost(c) ==
  /\ Open(c)
  /\ conns' = [conns EXCEPT ![c].exception = "ConnectionResetError", ![c].waiter = 0]
  /\ tasks' = WakeTasks(c, "thrown", "ConnectionResetError")
  /\ UNCHANGED <<framerVars, running, request_count, current_requests, requests,
                 read_exception, shutdown, reader_task, reader, ready, written,
                 conn_pc, connect_result, selftest_id, nconnects, connect_log, nfeeds,
                 hook_error, last_call>>

(* ------------------------------------------------------------------ *)
(* The client specification                                             *)
(* ------------------------------------------------------------------ *)

Init ==
  /\ stream = << >>
  /\ fed = 0
  /\ buffer = << >>
  /\ eof = FALSE
  /\ limit = DefaultLimit
  /\ status = "idle"
  /\ out = << >>
  /\ last = NoPass
  /\ ClientInit

Next ==
  \/ Connect
  \/ \E o \in {"ok", "refused", "error"} : Open1(o)
  \/ \E o \in {"ok", "refused", "error"} : Open2(o)
  \/ SelfTestDone
  \/ IssueRequest
  \/ \E id \in 0..(MaxRequests - 1) : Abandon(id)
  \/ RunCallback
  \/ \E t \in 1..Len(tasks) : ReadStep(t)
  \/ \E c \in 1..Len(conns) : \E chunk \in Chunks : DataReceived(c, chunk)
  \/ \E c \in 1..Len(conns) : EofReceived(c)
  \/ \E c \in 1..Len(conns) : ConnectionLost(c)

Spec == Init /\ [][Next]_vars

(* ------------------------------------------------------------------ *)
(* A client that is connected again                                     *)
(* ------------------------------------------------------------------ *)

\* most connect() calls of a run in which the client connects again
MaxReconnects == 2

\* what the remote sends in these runs: a reply to request 0 with a result
\* that fails the self-test, and the replies the self-test accepts
ReconnectChunks ==
  { ReplyHead \o FieldResult("5") \o FieldTimeoutFalse \o <<"}", "\n">> }
    \cup { ReplyBytes(n) \o <<"\n">> : n \in 0..(MaxRequests - 1) }

Reconnect == ConnectWithin(MaxReconnects)

ReconnectNext ==
  \/ Reconnect
  \/ \E o \in {"ok", "refused", "error"} : Open1(o)
  \/ \E o \in {"ok", "refused", "error"} : Open2(o)
  \/ SelfTestDone
  \/ IssueRequest
  \/ \E id \in 0..(MaxRequests - 1) : Abandon(id)
  \/ RunCallback
  \/ \E t \in 1..Len(tasks) : ReadStep(t)
  \/ \E c \in 1..Len(conns) : \E chunk \in ReconnectChunks : DataReceived(c, chunk)
  \/ \E c \in 1..Len(conns) : EofReceived(c)
  \/ \E c \in 1..Len(conns) : ConnectionLost(c)

ReconnectSpec == Init /\ [][ReconnectNext]_vars

(* ------------------------------------------------------------------ *)
(* Properties of the client                                             *)
(* ------------------------------------------------------------------ *)

\* the exceptions readjson raises: a malformed stream, the end of the
\* stream, a transport error, a frame over the limit, a second waiter, and
\* the two decoding errors of lines 40 and 68
ReadFailures ==
  {"AssertionError", "IncompleteReadError", "ConnectionResetError", "LimitOverrunError",
   "RuntimeError", "UnicodeDecodeError", "JSONDecodeError"}

\* the read loop of task t is over
Stopped(t) == tasks[t].state \in {"finished", "failed"}

\* request id is not in the callback queue
NotQueued(id) == \A k \in 1..Len(ready) : ready[k] # id

\* C1: in the step in which a read loop stops on a read failure, no entry
\* of the pending table is left unresolved
C1_FailureFanOut ==
  [][\A t \in 1..Len(tasks) :
       (/\ tasks[t].state # "failed"
        /\ tasks'[t].state = "failed"
        /\ tasks'[t].exc \in ReadFailures)
       => \A id \in current_requests : requests'[id + 1].completed # "pending"]_vars

\* C2: the read loop never tries to resolve an entry that is already
\* resolved: no read task ends with the InvalidStateError of set_result
C2_SingleResolution ==
  \A t \in 1..Len(tasks) : tasks[t].exc # "InvalidStateError"

\* C3: once every read loop that was started is over, no request whose
\* issue_request returned is still pending
C3_NoHang ==
  (Len(tasks) > 0 /\ \A t \in 1..Len(tasks) : Stopped(t))
    => \A id \in written : requests[id + 1].completed # "pending"

\* C4: a request resolved with a reply holds a reply whose reply_id is the
\* request's own id
C4_Correlation ==
  \A i \in 1..Len(requests) :
    requests[i].completed = "result"
      => /\ requests[i].reply.kind = "object"
         /\ PyKey(Get(requests[i].reply, KeyReplyId)) = i - 1

\* two requests are outstanding and the later one was answered first
C4_OutOfOrder ==
  /\ Len(requests) >= 2
  /\ {0, 1} \subseteq written
  /\ requests[1].completed = "pending"
  /\ requests[2].completed = "result"

\* C5: once a read loop has stopped on a read failure the failure is
\* recorded and no step allocates an id, inserts an entry or writes
C5_FailFast ==
  [][(\E t \in 1..Len(tasks) : tasks[t].state = "failed" /\ tasks[t].exc \in ReadFailures)
       => /\ read_exception # "None"
          /\ request_count' = request_count
          /\ current_requests' \subseteq current_requests
          /\ written' = written]_vars

\* C6: no removal hook fails on a missing entry, and a request that is
\* resolved and has no hook left to run is not in the pending table
C6_TableHygiene ==
  /\ ~hook_error
  /\ \A i \in 1..Len(requests) :
       (requests[i].completed # "pending" /\ NotQueued(i - 1))
         => (i - 1) \notin current_requests

\* C7: the step in which a read loop stops leaves the shutdown future
\* cancelled, and it is cancelled whenever every read loop started is over
C7_ShutdownSignalled ==
  /\ []((Len(tasks) > 0 /\ \A t \in 1..Len(tasks) : Stopped(t))
          => shutdown = "cancelled")
  /\ [][\A t \in 1..Len(tasks) :
          (~Stopped(t) /\ tasks'[t].state \in {"finished", "failed"})
            => shutdown' = "cancelled"]_vars

\* C12: for every request resolved with a reply, execute fails with the
\* timeout condition when the reply's timeout flag is true, else with the
\* remote error when its error field is present and not null, else it
\* returns the reply; nothing else happens
C12_ExecuteClassifies ==
  \A i \in 1..Len(requests) :
    requests[i].completed = "result"
      => ExecuteOutcome(requests[i].reply) =
           IF Truthy(Get(requests[i].reply, KeyTimeout)) THEN "TimeoutError"
           ELSE IF Get(requests[i].reply, KeyErrorMsg).kind \notin {"none", "null"}
                THEN "RuntimeError"
                ELSE "return"

\* C13: the step in which the second open attempt of connect fails ends
\* connect with that connection failure and leaves the client not running
C13_SecondFailurePropagates ==
  [][(conn_pc = "open2" /\ conn_pc' = "idle" /\ conns' = conns)
       => /\ connect_result' \in {"ConnectionRefusedError", "OSError"}
          /\ ~running']_vars

\* how connect ends when its self-test fails: a cancelled request, a reply
\* execute rejects, a result that is not 4
SelfTestFailures ==
  {"CancelledError", "KeyError", "TimeoutError", "RuntimeError", "AssertionError"}

\* the latest connect has ended with a failed self-test
SelfTestFailed ==
  conn_pc = "idle" /\ ~running /\ connect_result \in SelfTestFailures

\* C14: once connect has failed on its self-test the shutdown future is
\* cancelled and no step resolves a request with a reply
C14_NotUsableAfterSelfTest ==
  [][SelfTestFailed
       => /\ shutdown = "cancelled"
          /\ \A i \in 1..Len(requests) :
               requests'[i].completed = "result" => requests[i].completed = "result"]_vars

\* C15: a connect call makes one open attempt, or a refused one, the wait
\* for the remote to start, and one more attempt whatever its outcome;
\* nothing follows a first attempt that failed otherwise or a second attempt
C15_BoundedRetry ==
  \/ connect_log = << >>
  \/ connect_log \in { <<"ok">>, <<"error">>, <<"refused", "waitfor">> }
  \/ connect_log \in { <<"refused", "waitfor", o>> : o \in {"ok", "refused", "error"} }

\* connect got its connection from the second attempt
C15_Retried ==
  conn_pc = "selftest" /\ connect_log = <<"refused", "waitfor", "ok">>

\* C16: a request whose command was written and that is still pending is
\* in the pending table, and the table holds no id whose command was not
\* written
C16_InsertBeforeWrite ==
  /\ \A id \in written : requests[id + 1].completed = "pending" => id \in current_requests
  /\ current_requests \subseteq written

\* C17: at most one read task is not over, and a read task suspended in
\* readjson is suspended on the reader of the client's current connection
C17_OneReadLoop ==
  /\ \A t, u \in 1..Len(tasks) : (~Stopped(t) /\ ~Stopped(u)) => t = u
  /\ \A t \in 1..Len(tasks) :
       tasks[t].state \in {"waiting", "woken", "thrown"} => tasks[t].conn = reader

\* the reply_id of a decoded message, NoVal for a message that has none
IdOf(v) == IF v.kind = "object" THEN Get(v, KeyReplyId) ELSE NoVal

\* v is a message the read loop cannot match: it has no reply_id, or its
\* reply_id is no key of the pending table
Unmatched(v) ==
  /\ v.kind \in {"object", "array"}
  /\ \/ IdOf(v).kind \in {"none", "null"}
     \/ PyKey(IdOf(v)) \notin current_requests

\* the open connection c holds one message and nothing else, and the read
\* loop cannot match the message
OneUnmatched(c) ==
  /\ Open(c)
  /\ conns[c].buffer # << >>
  /\ FrameEnd(StripSpace(conns[c].buffer)) = Len(StripSpace(conns[c].buffer))
  /\ Unmatched(FirstValue(conns[c].buffer))

\* C18: when a read task resumes on the current connection and finds one
\* message that it cannot match, the step changes no request and no entry
\* of the pending table, and the task does not end with an exception
C18_UnmatchedDiscarded ==
  [][\A t \in 1..Len(tasks) :
       (/\ tasks[t].state = "woken"
        /\ tasks'[t].state # "woken"
        /\ tasks[t].conn = reader
        /\ OneUnmatched(reader))
       => /\ requests' = requests
          /\ current_requests' = current_requests
          /\ ready' = ready
          /\ tasks'[t].state # "failed"]_vars

\* C20: every Request made has its own id, every id of the table and every
\* id written is below the counter; no step lowers the counter, an id that
\* a step adds is not below the counter the step started from, and no step
\* moves the counter once a read error is recorded
C20_IdsIncrease ==
  /\ [](/\ Len(requests) = request_count
        /\ \A id \in current_requests \cup written : id < request_count)
  /\ [][/\ request_count' >= request_count
        /\ \A id \in (current_requests' \ current_requests) \cup (written' \ written) :
             id >= request_count
        /\ FailsFast(read_exception) => request_count' = request_count]_vars

\* an issue_request failed fast after the self-test request got id 0
C20_FailedFast ==
  /\ read_exception # "None"
  /\ last_call = "raised"
  /\ request_count = 1
  /\ written = {0}

\* a read loop stopped while the client was still marked running: only the
\* finally clause of read can have cancelled the shutdown future
C7_LoopGone ==
  /\ running
  /\ \E t \in 1..Len(tasks) : Stopped(t)
  /\ shutdown = "cancelled"

====
